---- MODULE Spec2Model ----
(***************************************************************************)
(* A model of src/generator.py: the capture synthesis engine.  run_tx      *)
(* walks the configured modulation entries, each generate_* function       *)
(* samples its per-capture parameters from numpy's global generator, runs  *)
(* the C modulator / shaping / channel calls and hands the trimmed IQ      *)
(* buffers and a metadata record to save_sigmf.                            *)
(*                                                                         *)
(* Real-valued parameters are integers in thousandths.  Sample buffers are *)
(* represented by their length together with the list of C calls that      *)
(* filled them.  An exception is the state pc = "error" with its type in   *)
(* error: nothing in the program catches one, so the run stops there.      *)
(***************************************************************************)
EXTENDS Integers, Sequences, FiniteSets, TLC

VARIABLES
    config,          \* the resolved configuration passed to run_tx
    rng_seed,        \* module global rng_seed
    rng,             \* state of numpy's global generator
    run,             \* 1 for the first launch of the program, 2 for the second
    pc,              \* position in run_tx / the active generate_* function
    error,           \* type of the exception that ended the run, or "none"
    mi,              \* position of run_tx's loop in config["modulation"]
    idx,             \* run_tx: idx
    start_idx,       \* run_tx: start_idx
    i,               \* generate_*: the next value of the capture loop variable i
    ci,              \* generate_linear: position in center_frequencies
    sig_params,      \* generate_*: sampled shaping parameters, one per capture
    channel_params,  \* generate_*: sampled channel parameters, one per capture
    loc,             \* generate_linear: locals bound inside the center_freq loop
    calls,           \* C calls made so far for the current capture
    n_calls,         \* number of C calls made so far in the run
    written,         \* the calls made to save_sigmf, in order
    ber_dict,        \* generate_linear: ber_dict, as a sequence of <<snr, ber list>>
    printed,         \* lines printed by run_tx and generate_linear
    archived,        \* whether archive_sigmf has run
    prev_written,    \* the save_sigmf calls of the first launch
    ber_args,        \* arguments of a direct call of calculate_ber_BPSK
    ber_ret,         \* <<value returned by that call>>, <<>> before it returns
    mix              \* generate_linear's composite of a capture, sample by sample

vars == <<ber_args, ber_ret, mix, config, rng_seed, rng, run, pc, error, mi, idx, start_idx, i, ci,
          sig_params, channel_params, loc, calls, n_calls, written, ber_dict,
          printed, archived, prev_written>>

---------------------------------------------------------------------------
(* Bounds of the model *)

MaxMods == 2
MaxCaptures == 2

(* Program constants *)

buf == 4096
halfbuf == 2048

---------------------------------------------------------------------------
(* Python and ctypes helpers *)

Last(s) == s[Len(s)]

\* ctypes.c_float(v): the float32 nearest to v; a thousandth is finer than the
\* precision kept, modelled as truncation to a multiple of 4 thousandths
CFloat(v) == (v \div 4) * 4

\* ctypes.c_int(v).value: v wrapped to 32 bits, two's complement.  Every integer
\* of this model lies in -2^31 .. 2^31 - 1, where the wrap leaves it as it is
CInt(v) == v

\* ctypes.c_uint(int(v)).value on an integral v: v modulo 2^32, which is v for
\* the non-negative delays of the configuration
CUInt(v) == IF v >= 0 THEN v ELSE v + 2147483647 + 2147483647 + 2

\* 2.0 * v * np.pi in thousandths
TwoPi(v) == (2 * v * 3142) \div 1000

\* int(np.ceil(a / b)) for b > 0
CeilDiv(a, b) == (a + b - 1) \div b

\* int(np.log2(n)) for n >= 1
RECURSIVE Log2(_)
Log2(n) == IF n <= 1 THEN 0 ELSE 1 + Log2(n \div 2)

\* faulty variant: len(a[lo:]), the tail is not trimmed
SliceLen_HeadOnly(n, lo, hi) == IF lo < n THEN n - lo ELSE 0

\* len(a[lo:-hi]) for a sequence of length n and lo, hi > 0
SliceLen(n, lo, hi) ==
    LET start == IF lo < n THEN lo ELSE n
        stop  == IF n - hi > 0 THEN n - hi ELSE 0
    IN IF stop > start THEN stop - start ELSE 0

---------------------------------------------------------------------------
(* numpy's global generator: a deterministic function of its state *)

\* np.random.seed(rng_seed)
SeedRng(s) == s % 31

\* faulty variant: the generator's next state also depends on the launch
NextRng_Unseeded(s) == (17 * s + 1 + run) % 31

\* the generator's transition from one draw to the next
NextRng(s) == (17 * s + 1) % 31

\* faulty variant: one index more than asked for
RECURSIVE Choice_OneMore(_, _, _)
Choice_OneMore(n, k, s) ==
    IF k < 0 \/ n = 0 THEN [idx |-> <<>>, rng |-> s]
    ELSE LET s1   == NextRng(s)
             rest == Choice_OneMore(n, k - 1, s1)
         IN [idx |-> <<s1 % n>> \o rest.idx, rng |-> rest.rng]

\* np.random.choice(n, k) for n > 0: k indices in 0..n-1 and the state reached
RECURSIVE Choice(_, _, _)
Choice(n, k, s) ==
    IF k <= 0 THEN [idx |-> <<>>, rng |-> s]
    ELSE LET s1   == NextRng(s)
             rest == Choice(n, k - 1, s1)
         IN [idx |-> <<s1 % n>> \o rest.idx, rng |-> rest.rng]

\* np.random.choice(n, k) raises ValueError for an empty population
ChoiceRaises(n, k) == n = 0 /\ k > 0

\* [pool[_idx] for _idx in idx]
Pick(pool, ix) == [k \in 1..Len(ix) |-> pool[ix[k] + 1]]

---------------------------------------------------------------------------
(* The configuration.  The entries that the runs below vary are the fields *)
(* of the variable config; the parameter grids are the same in every run.  *)

\* utils.mod_int2modem: the modem family of a modulation class (None for noise)
mod_int2modem(c) ==
    CASE c = 0 -> "None"
      [] c = 1 -> "linear"
      [] c = 2 -> "amplitude"
      [] c = 3 -> "frequency"
      [] c = 4 -> "freq_shift"
      [] OTHER -> "ofdm"

\* config["modulation"] entries: [class, ..., name]
\*   noise [c, name]; linear [c, order, name]; am, fm [c, variant, name];
\*   fsk [c, order, modulation index, pulse shape, name]
ModEntries ==
    { <<0, "noise">>,
      <<1, 2, "bpsk">>, <<1, 4, "qpsk">>,
      <<2, 0, "am-dsb">>,
      <<3, 0, "fmnb">>, <<3, 1, "fmwb">>, <<3, 2, "fmxb">>,
      <<4, 2, 500, 0, "fsk5k">>, <<4, 2, 1000, 1, "gfsk5k">>,
      <<4, 4, 15000, 1, "gfsk75k">>, <<4, 2, 700, 0, "fsk7k">>,
      <<5, "ofdm-64">> }

\* entries whose batch can run to its end, so that another batch follows it
LeadingEntries == { <<0, "noise">>, <<1, 2, "bpsk">>, <<2, 0, "am-dsb">> }

\* config["modulation"]: at most MaxMods entries; the last one is any entry,
\* the ones before it are leading entries
ModLists ==
    { <<>> } \cup
    UNION { { lead \o <<e>> : lead \in [1..(n - 1) -> LeadingEntries],
                              e \in ModEntries } : n \in 1..MaxMods }

\* config["channel_params"] pools: awgn (snr, fo, po), rayleigh (snr, fo, po,
\* awgn_flag, path_delays, path_gains), rician (snr, fo, po, k_factor,
\* awgn_flag, path_delays, path_gains)
AwgnPool == << <<10002, 101, 502>>, <<20000, 0, 0>> >>
RayleighPool ==
    << <<10002, 101, 502, 1, <<0, 2>>, <<1000, 500>> >>,
       <<20000, 0, 0, 1, <<0, 2>>, <<1000>> >> >>
RicianPool ==
    << <<10002, 101, 502, 3000, 1, <<0, 2>>, <<1000, 500>> >>,
       <<20000, 0, 0, 3000, 0, <<0>>, <<1000, 500>> >>,
       <<20000, 0, 0, 0 - 1000, 1, <<0>>, <<1000>> >> >>

\* config["channel_type"] with config["channel_params"]
ChannelConfigs ==
    { [type |-> "awgn",     pool |-> AwgnPool],
      [type |-> "rayleigh", pool |-> RayleighPool],
      [type |-> "rician",   pool |-> RicianPool],
      [type |-> "nakagami", pool |-> AwgnPool],
      [type |-> "awgn",     pool |-> <<>>] }

CenterFrequencyLists == { <<>>, <<0>>, <<0, 250000>> }

NSampsValues == {0, 5}

Seeds == {1, 2}

Configs ==
    [ modulation         : ModLists,
      n_captures         : 0..MaxCaptures,
      n_samps            : NSampsValues,
      center_frequencies : CenterFrequencyLists,
      channel            : ChannelConfigs,
      archive            : BOOLEAN ]

\* entries of the configuration that every run shares
sampling_rate == 1000000
symbol_rate == <<2, 3>>
rrc_filter == [beta |-> <<350, 502>>, delay |-> <<4>>, dt |-> <<101>>]
gaussian_filter == [beta |-> <<300, 501>>, delay |-> <<4>>, dt |-> <<101>>]
am_defaults == [modulation_index |-> <<500, 1002>>]
fmnb_defaults == [modulation_factor |-> <<150, 302>>]
fmwb_defaults == [modulation_factor |-> <<5000, 10002>>]
savepath == "dataset"
savename == "capture"
verbose == 0

\* the (sps, beta, delay, dt) product of generate_linear and generate_fsk
Grid(filter) ==
    LET nb == Len(filter.beta)
        nd == Len(filter.delay)
        nt == Len(filter.dt)
        n  == Len(symbol_rate) * nb * nd * nt
    IN [k \in 1..n |->
          LET j == k - 1
          IN << symbol_rate[(j \div (nb * nd * nt)) + 1],
                filter.beta[((j \div (nd * nt)) % nb) + 1],
                filter.delay[((j \div nt) % nd) + 1],
                filter.dt[(j % nt) + 1] >>]

---------------------------------------------------------------------------
(* Launching the program: __main__ seeds the generator and calls run_tx *)

\* faulty variant: the loop's locals exist before the loop has run
NoLocals_Bound ==
    [bound |-> TRUE, snr |-> 0, fo |-> 0, po |-> 0, order |-> 0, sps |-> 1,
     beta |-> 0, delay |-> 0, dt |-> 0, xlen |-> 0, sub |-> 0]

NoLocals ==
    [bound |-> FALSE, snr |-> 0, fo |-> 0, po |-> 0, order |-> 0, sps |-> 0,
     beta |-> 0, delay |-> 0, dt |-> 0, xlen |-> 0, sub |-> 0]

Launch ==
    /\ rng = SeedRng(rng_seed)
    /\ pc = "run_tx"
    /\ error = "none"
    /\ mi = 1
    /\ idx = 0
    /\ start_idx = 0
    /\ i = 0
    /\ ci = 0
    /\ sig_params = <<>>
    /\ channel_params = <<>>
    /\ loc = NoLocals
    /\ calls = <<>>
    /\ n_calls = 0
    /\ written = <<>>
    /\ ber_dict = <<>>
    /\ printed = <<>>
    /\ archived = FALSE

Init ==
    /\ config \in Configs
    /\ rng_seed \in Seeds
    /\ run = 1
    /\ prev_written = <<>>
    /\ ber_args = <<>>
    /\ ber_ret = <<>>
    /\ mix = <<>>
    /\ Launch

\* an exception propagates out of run_tx: the run stops
\* faulty variant: the exception is recorded and the caller carries on
Raise_Swallowed(type) ==
    /\ pc' = pc
    /\ error' = type

\* an exception leaves every frame: nothing in generator.py catches one
Raise(type) ==
    /\ pc' = "error"
    /\ error' = type

mod == config.modulation[mi]
n_captures == config.n_captures
channel_type == config.channel.type

\* what run_tx and the generators leave alone when an exception is raised
UNCHANGED_ON_RAISE ==
    UNCHANGED <<ber_args, ber_ret, mix, config, rng_seed, rng, run, mi, idx, start_idx, i, ci, sig_params,
                channel_params, loc, calls, n_calls, written, ber_dict, printed,
                archived, prev_written>>

---------------------------------------------------------------------------
(* run_tx *)

\* faulty variant: an unknown family falls through to the noise generator
GeneratorOf_Fallback(family) ==
    CASE family = "linear"     -> "generate_linear"
      [] family = "amplitude"  -> "generate_am"
      [] family = "frequency"  -> "generate_fm"
      [] family = "freq_shift" -> "generate_fsk"
      [] OTHER                 -> "generate_noise"

GeneratorOf(family) ==
    CASE family = "None"       -> "generate_noise"
      [] family = "linear"     -> "generate_linear"
      [] family = "amplitude"  -> "generate_am"
      [] family = "frequency"  -> "generate_fm"
      [] family = "freq_shift" -> "generate_fsk"
      [] OTHER                 -> "undefined"

\* the loop header and the if/elif chain: enter the generator of the next entry
RunTxDispatch ==
    /\ pc = "run_tx"
    /\ mi <= Len(config.modulation)
    /\ GeneratorOf(mod_int2modem(mod[1])) # "undefined"
    /\ start_idx' = idx
    /\ pc' = GeneratorOf(mod_int2modem(mod[1]))
    /\ UNCHANGED <<ber_args, ber_ret, mix, config, rng_seed, rng, run, error, mi, idx, i, ci, sig_params,
                   channel_params, loc, calls, n_calls, written, ber_dict, printed,
                   archived, prev_written>>

\* else: raise ValueError("Undefined modem.")
RunTxUndefinedModem ==
    /\ pc = "run_tx"
    /\ mi <= Len(config.modulation)
    /\ GeneratorOf(mod_int2modem(mod[1])) = "undefined"
    /\ Raise("ValueError")
    /\ start_idx' = idx
    /\ UNCHANGED <<ber_args, ber_ret, mix, config, rng_seed, rng, run, mi, idx, i, ci, sig_params,
                   channel_params, loc, calls, n_calls, written, ber_dict, printed,
                   archived, prev_written>>

\* idx = generate_*(...) returns ret; print(_mod[-1] + ": " + str(idx - start_idx))
ReturnToRunTx(ret, lines) ==
    /\ idx' = ret
    /\ printed' = printed \o lines \o
                   << [line |-> "count", modname |-> Last(mod),
                       count |-> ret - start_idx] >>
    /\ mi' = mi + 1
    /\ pc' = "run_tx"

\* after the loop: if config["archive"]: archive_sigmf(config["savepath"])
RunTxFinish ==
    /\ pc = "run_tx"
    /\ mi > Len(config.modulation)
    /\ archived' = config.archive
    /\ pc' = "done"
    /\ UNCHANGED <<ber_args, ber_ret, mix, config, rng_seed, rng, run, error, mi, idx, start_idx, i, ci,
                   sig_params, channel_params, loc, calls, n_calls, written,
                   ber_dict, printed, prev_written>>

---------------------------------------------------------------------------
(* Pieces shared by generate_noise, generate_am, generate_fm, generate_fsk *)

\* faulty variant: a guard of buf samples at each end
n_samps_TwoBuf == CInt(config.n_samps + 2 * buf)

\* n_samps = ctypes.c_int(config["n_samps"] + buf)   (.value)
n_samps == CInt(config.n_samps + buf)

\* seed = ctypes.c_int(rng_seed)
seed == CInt(rng_seed)

\* faulty variant: fo and po are passed in each other's place
ChannelCall_Swapped(snr, n, sps, fo, po, xlen) ==
    [fn |-> "channel", snr |-> snr, n_sym |-> n, sps |-> sps, fo |-> po, po |-> fo,
     xlen |-> xlen, seed |-> CInt(rng_seed)]

\* cchan.channel(snr, n, sps, fo, po, xI, xQ, yI, yQ, verbose, seed)
ChannelCall(snr, n, sps, fo, po, xlen) ==
    [fn |-> "channel", snr |-> snr, n_sym |-> n, sps |-> sps, fo |-> fo, po |-> po,
     xlen |-> xlen, seed |-> seed]

\* save_sigmf(I, Q, metadata, index): I and Q by their lengths and the calls
\* that produced the samples
SaveSigmf(I_len, Q_len, chain, metadata, index) ==
    written' = Append(written,
        [I_len |-> I_len, Q_len |-> Q_len, chain |-> chain,
         metadata |-> metadata, index |-> index])

\* faulty variant: return idx_start + i
ReturnAfterLoop_OffByOne ==
    IF i = 0
    THEN /\ Raise("UnboundLocalError")
         /\ UNCHANGED_ON_RAISE
    ELSE /\ ReturnToRunTx(start_idx + (i - 1), <<>>)
         /\ UNCHANGED <<ber_args, ber_ret, mix, config, rng_seed, rng, run, error, start_idx, i, ci,
                        sig_params, channel_params, loc, calls, n_calls, written,
                        ber_dict, archived, prev_written>>

\* return idx_start + i + 1, where i is unbound if the loop body never ran
ReturnAfterLoop ==
    IF i = 0
    THEN /\ Raise("UnboundLocalError")
         /\ UNCHANGED_ON_RAISE
    ELSE /\ ReturnToRunTx(start_idx + (i - 1) + 1, <<>>)
         /\ UNCHANGED <<ber_args, ber_ret, mix, config, rng_seed, rng, run, error, start_idx, i, ci,
                        sig_params, channel_params, loc, calls, n_calls, written,
                        ber_dict, archived, prev_written>>

\* idx = np.random.choice(len(sig), n_captures); sig_params = [sig[_idx] ...]
\* idx = np.random.choice(len(pool), n_captures); channel_params = [...]
SampleParams(sig, next_pc) ==
    LET pool == config.channel.pool
        d1   == Choice(Len(sig), n_captures, rng)
        d2   == Choice(Len(pool), n_captures, d1.rng)
    IN IF ChoiceRaises(Len(sig), n_captures)
       THEN /\ Raise("ValueError")
            /\ UNCHANGED_ON_RAISE
       ELSE IF ChoiceRaises(Len(pool), n_captures)
       THEN /\ Raise("ValueError")
            /\ rng' = d1.rng
            /\ sig_params' = Pick(sig, d1.idx)
            /\ UNCHANGED <<ber_args, ber_ret, mix, config, rng_seed, run, mi, idx, start_idx, i, ci,
                           channel_params, loc, calls, n_calls, written, ber_dict,
                           printed, archived, prev_written>>
       ELSE /\ sig_params' = Pick(sig, d1.idx)
            /\ channel_params' = Pick(pool, d2.idx)
            /\ rng' = d2.rng
            /\ i' = 0
            /\ pc' = next_pc
            /\ UNCHANGED <<ber_args, ber_ret, mix, config, rng_seed, run, error, mi, idx, start_idx, ci,
                           loc, calls, n_calls, written, ber_dict, printed,
                           archived, prev_written>>

\* the frame of one pass of a capture loop that ends in save_sigmf
CaptureFrame(chain) ==
    /\ calls' = chain
    /\ n_calls' = n_calls + Len(chain)
    /\ i' = i + 1
    /\ UNCHANGED <<ber_args, ber_ret, mix, config, rng_seed, rng, run, pc, error, mi, idx, start_idx, ci,
                   sig_params, channel_params, loc, ber_dict, printed, archived,
                   prev_written>>

\* save_sigmf raises (an I/O error): the C calls of the pass were made,
\* nothing is written and the exception leaves run_tx
SaveSigmfRaises(chain) ==
    /\ Raise("OSError")
    /\ calls' = chain
    /\ n_calls' = n_calls + Len(chain)
    /\ UNCHANGED <<ber_args, ber_ret, mix, config, rng_seed, rng, run, mi, idx, start_idx, i, ci,
                   sig_params, channel_params, loc, written, ber_dict, printed,
                   archived, prev_written>>

---------------------------------------------------------------------------
(* generate_noise *)

NoiseSample ==
    /\ pc = "generate_noise"
    /\ LET pool == config.channel.pool
           d    == Choice(Len(pool), n_captures, rng)
       IN IF ChoiceRaises(Len(pool), n_captures)
          THEN /\ Raise("ValueError")
               /\ UNCHANGED_ON_RAISE
          ELSE /\ channel_params' = Pick(pool, d.idx)
               /\ rng' = d.rng
               /\ i' = 0
               /\ pc' = "noise_loop"
               /\ UNCHANGED <<ber_args, ber_ret, mix, config, rng_seed, run, error, mi, idx, start_idx, ci,
                              sig_params, loc, calls, n_calls, written, ber_dict,
                              printed, archived, prev_written>>

\* one pass of the capture loop; ok tells whether save_sigmf returns
NoiseCaptureStep(ok) ==
    /\ pc = "noise_loop"
    /\ i < n_captures
    /\ LET cp  == channel_params[i + 1]
           snr == CFloat(cp[1])
           fo  == CFloat(TwoPi(cp[2]))
           po  == CFloat(0)
           sps == CInt(1)
           chain == << ChannelCall(snr, n_samps, sps, fo, po, n_samps) >>
           metadata ==
               [modname |-> Last(mod), modclass |-> CInt(mod[1]),
                n_samps |-> n_samps - buf, channel_type |-> channel_type,
                snr |-> snr, sps |-> sps, fo |-> fo, po |-> po,
                savepath |-> savepath, savename |-> savename]
       IN IF ok
          THEN /\ SaveSigmf(SliceLen(n_samps, halfbuf, halfbuf),
                          SliceLen(n_samps, halfbuf, halfbuf),
                          chain, metadata, start_idx + i)
               /\ CaptureFrame(chain)
          ELSE SaveSigmfRaises(chain)

NoiseCapture == NoiseCaptureStep(TRUE)

\* the same pass when save_sigmf raises an I/O error
NoiseWriteFails == NoiseCaptureStep(FALSE)

NoiseReturn ==
    /\ pc = "noise_loop"
    /\ i >= n_captures
    /\ ReturnAfterLoop

---------------------------------------------------------------------------
(* generate_am *)

AmSample ==
    /\ pc = "generate_am"
    /\ SampleParams(am_defaults.modulation_index, "am_loop")

\* one pass of the capture loop; ok tells whether save_sigmf returns
AmCaptureStep(ok) ==
    /\ pc = "am_loop"
    /\ i < n_captures
    /\ LET cp  == channel_params[i + 1]
           snr == CFloat(cp[1])
           fo  == CFloat(TwoPi(cp[2]))
           po  == CFloat(cp[3])
           modtype == CInt(mod[2])
           mod_idx == CFloat(sig_params[i + 1])
           sps == CInt(1)
           chain ==
               << [fn |-> "am_modulate", modtype |-> modtype, mod_idx |-> mod_idx,
                   n_samps |-> n_samps, xlen |-> n_samps, seed |-> seed],
                  ChannelCall(snr, n_samps, sps, fo, po, n_samps) >>
           metadata ==
               [modname |-> Last(mod), modclass |-> mod[1], modvariant |-> mod[2],
                mod_idx |-> mod_idx, n_samps |-> n_samps - buf,
                channel_type |-> channel_type, snr |-> snr, fo |-> fo, po |-> po,
                savepath |-> savepath, savename |-> savename]
       IN IF ok
          THEN /\ SaveSigmf(SliceLen(n_samps, halfbuf, halfbuf),
                          SliceLen(n_samps, halfbuf, halfbuf),
                          chain, metadata, start_idx + i)
               /\ CaptureFrame(chain)
          ELSE SaveSigmfRaises(chain)

AmCapture == AmCaptureStep(TRUE)

\* the same pass when save_sigmf raises an I/O error
AmWriteFails == AmCaptureStep(FALSE)

AmReturn ==
    /\ pc = "am_loop"
    /\ i >= n_captures
    /\ ReturnAfterLoop

---------------------------------------------------------------------------
(* generate_fm *)

\* faulty variant: every variant other than 0 is taken as wideband
FmSample_WidebandDefault ==
    /\ pc = "generate_fm"
    /\ IF mod[2] = 0
       THEN SampleParams(fmnb_defaults.modulation_factor, "fm_loop")
       ELSE SampleParams(fmwb_defaults.modulation_factor, "fm_loop")

\* mod[1] selects the list; any other value leaves sig_params unbound and
\* len(sig_params) raises UnboundLocalError
FmSample ==
    /\ pc = "generate_fm"
    /\ IF mod[2] = 0
       THEN SampleParams(fmnb_defaults.modulation_factor, "fm_loop")
       ELSE IF mod[2] = 1
       THEN SampleParams(fmwb_defaults.modulation_factor, "fm_loop")
       ELSE /\ Raise("UnboundLocalError")
            /\ UNCHANGED_ON_RAISE

\* one pass of the capture loop; ok tells whether save_sigmf returns
FmCaptureStep(ok) ==
    /\ pc = "fm_loop"
    /\ i < n_captures
    /\ LET cp  == channel_params[i + 1]
           mod_factor == CFloat(sig_params[i + 1])
           snr == CFloat(cp[1])
           fo  == CFloat(TwoPi(cp[2]))
           po  == CFloat(cp[3])
           sps == CInt(1)
           chain ==
               << [fn |-> "fm_modulate", mod_factor |-> mod_factor,
                   n_samps |-> n_samps, xlen |-> n_samps, seed |-> seed],
                  ChannelCall(snr, n_samps, sps, fo, po, n_samps) >>
           metadata ==
               [modname |-> Last(mod), modclass |-> mod[1], modvariant |-> mod[2],
                mod_factor |-> mod_factor, n_samps |-> n_samps - buf,
                channel_type |-> channel_type, snr |-> snr, fo |-> fo, po |-> po,
                savepath |-> savepath, savename |-> savename]
       IN IF ok
          THEN /\ SaveSigmf(SliceLen(n_samps, halfbuf, halfbuf),
                          SliceLen(n_samps, halfbuf, halfbuf),
                          chain, metadata, start_idx + i)
               /\ CaptureFrame(chain)
          ELSE SaveSigmfRaises(chain)

FmCapture == FmCaptureStep(TRUE)

\* the same pass when save_sigmf raises an I/O error
FmWriteFails == FmCaptureStep(FALSE)

FmReturn ==
    /\ pc = "fm_loop"
    /\ i >= n_captures
    /\ ReturnAfterLoop

---------------------------------------------------------------------------
(* generate_fsk *)

\* faulty variant: the spacings of the indices 0.5 and 1.0 are exchanged
CarrierSpacing_Exchanged(modidx) ==
    IF modidx = 500 THEN <<5000>>
    ELSE IF modidx = 1000 THEN <<2500>>
    ELSE IF modidx = 15000 THEN <<15000>>
    ELSE <<>>

\* the carrier spacing for mod[2]; <<>> stands for None
CarrierSpacing(modidx) ==
    IF modidx = 500 THEN <<2500>>
    ELSE IF modidx = 1000 THEN <<5000>>
    ELSE IF modidx = 15000 THEN <<15000>>
    ELSE <<>>

FskSample ==
    /\ pc = "generate_fsk"
    /\ SampleParams(Grid(gaussian_filter), "fsk_loop")

\* metadata "beta" is the string "none" for the square pulse, written <<>>, and
\* beta.value, written <<beta>>, otherwise
\* one pass of the capture loop; ok tells whether save_sigmf returns
FskCaptureStep(ok) ==
    /\ pc = "fsk_loop"
    /\ i < n_captures
    /\ LET cp  == channel_params[i + 1]
           sp  == sig_params[i + 1]
           snr == CFloat(cp[1])
           fo  == CFloat(TwoPi(cp[2]))
           po  == CFloat(0)
           bps == CInt(Log2(mod[2]))
           modidx == CFloat(mod[3])
           sps == CInt(sp[1])
           n_sym == CInt(CeilDiv(n_samps, sps))
           pulseshape == CInt(mod[4])
           beta  == CFloat(sp[2])
           delay == CUInt(sp[3])
           dt    == CFloat(sp[4])
           chain ==
               << [fn |-> "fsk_modulate", n_sym |-> n_sym, bps |-> bps,
                   mod_idx |-> modidx, pulseshape |-> pulseshape, sps |-> sps,
                   delay |-> delay, beta |-> beta, xlen |-> n_samps, seed |-> seed],
                  ChannelCall(snr, n_sym, sps, fo, po, n_samps) >>
           cs == CarrierSpacing(mod[3])
           ft == IF pulseshape = 0 THEN "square" ELSE "gaussian"
           b  == IF pulseshape = 0 THEN <<>> ELSE <<beta>>
           metadata ==
               [modname |-> Last(mod), modclass |-> mod[1], order |-> mod[2],
                mod_idx |-> modidx, carrier_spacing |-> cs,
                n_samps |-> n_samps - buf, channel_type |-> channel_type,
                snr |-> snr, filter_type |-> ft, sps |-> sps, beta |-> b,
                delay |-> delay, dt |-> dt, fo |-> fo, po |-> po,
                savepath |-> savepath, savename |-> savename]
       IN IF ok
          THEN /\ SaveSigmf(SliceLen(n_samps, halfbuf, halfbuf),
                          SliceLen(n_samps, halfbuf, halfbuf),
                          chain, metadata, start_idx + i)
               /\ CaptureFrame(chain)
          ELSE SaveSigmfRaises(chain)

FskCapture == FskCaptureStep(TRUE)

\* the same pass when save_sigmf raises an I/O error
FskWriteFails == FskCaptureStep(FALSE)

FskReturn ==
    /\ pc = "fsk_loop"
    /\ i >= n_captures
    /\ ReturnAfterLoop

---------------------------------------------------------------------------
(* generate_linear *)

\* n_samps = config["n_samps"] + buf
linear_n_samps == config.n_samps + buf

center_frequencies == config.center_frequencies

LinearSample ==
    /\ pc = "generate_linear"
    /\ SampleParams(Grid(rrc_filter), "linear_loop")

\* the head of the capture loop: I_total and Q_total start at zero
LinearCaptureBegin ==
    /\ pc = "linear_loop"
    /\ i < n_captures
    /\ calls' = <<>>
    /\ ci' = 1
    /\ pc' = "linear_cf"
    /\ UNCHANGED <<ber_args, ber_ret, mix, config, rng_seed, rng, run, error, mi, idx, start_idx, i,
                   sig_params, channel_params, loc, n_calls, written, ber_dict,
                   printed, archived, prev_written>>

\* the exception raised while the channel parameters are extracted, or "none"
ExtractRaises(type, cp) ==
    IF type = "awgn"
    THEN IF Len(cp) # 3 THEN "ValueError" ELSE "none"
    ELSE IF type = "rayleigh"
    THEN IF Len(cp) # 6 THEN "ValueError"
         ELSE IF Len(cp[5]) # Len(cp[6]) THEN "AssertionError" ELSE "none"
    ELSE IF type = "rician"
    THEN IF Len(cp) # 7 THEN "ValueError"
         ELSE IF Len(cp[6]) # Len(cp[7]) THEN "AssertionError" ELSE "none"
    ELSE "ValueError"

\* the channel call that generate_linear makes for channel_type
LinearChannelCall(type, cp, n_sym, sps) ==
    LET snr == CFloat(cp[1])
        fo  == CFloat(cp[2])
        po  == CFloat(cp[3])
    IN IF type = "awgn"
       THEN ChannelCall(snr, n_sym, sps, fo, po, linear_n_samps)
       ELSE IF type = "rayleigh"
       THEN [fn |-> "rayleigh_channel", snr |-> snr, n_sym |-> n_sym, sps |-> sps,
             fo |-> fo, po |-> po, num_taps |-> CInt(Len(cp[5])),
             awgn |-> CInt(cp[4]), path_delays |-> cp[5], path_gains |-> cp[6],
             xlen |-> linear_n_samps, seed |-> seed]
       ELSE [fn |-> "rician_channel", snr |-> snr, n_sym |-> n_sym, sps |-> sps,
             fo |-> fo, po |-> po, k_factor |-> CFloat(cp[4]),
             num_taps |-> CInt(Len(cp[6])), awgn |-> CInt(cp[5]),
             path_delays |-> cp[6], path_gains |-> cp[7],
             xlen |-> linear_n_samps, seed |-> seed]

\* one pass of "for center_freq in center_frequencies": extract the channel
\* parameters, modulate, shape, impair, trim, shift and add to the composite
LinearSubSignal ==
    /\ pc = "linear_cf"
    /\ ci <= Len(center_frequencies)
    /\ LET cp == channel_params[i + 1]
           sp == sig_params[i + 1]
           order == CInt(mod[2])
           sps   == CInt(sp[1])
           beta  == CFloat(sp[2])
           delay == CUInt(sp[3])
           dt    == CFloat(sp[4])
           n_sym == CeilDiv(linear_n_samps, sps)
           chain ==
               << [fn |-> "linear_modulate", modtype |-> CInt(mod[1]),
                   order |-> order, n_sym |-> CInt(n_sym), seed |-> seed],
                  [fn |-> "rrc_tx", n_sym |-> CInt(n_sym), sps |-> sps,
                   delay |-> delay, beta |-> beta, dt |-> dt,
                   xlen |-> linear_n_samps],
                  LinearChannelCall(channel_type, cp, n_sym, sps),
                  [fn |-> "freq_shift", center_freq |-> center_frequencies[ci],
                   len |-> SliceLen(linear_n_samps, halfbuf, halfbuf)] >>
       IN IF ExtractRaises(channel_type, cp) # "none"
          THEN /\ Raise(ExtractRaises(channel_type, cp))
               /\ UNCHANGED_ON_RAISE
          ELSE /\ loc' = [bound |-> TRUE, snr |-> CFloat(cp[1]),
                          fo |-> CFloat(cp[2]), po |-> CFloat(cp[3]),
                          order |-> order, sps |-> sps, beta |-> beta,
                          delay |-> delay, dt |-> dt, xlen |-> linear_n_samps,
                          sub |-> ci]
               /\ calls' = calls \o chain
               /\ n_calls' = n_calls + 3
               /\ ci' = ci + 1
               /\ UNCHANGED <<ber_args, ber_ret, mix, config, rng_seed, rng, run, pc, error, mi, idx,
                              start_idx, i, sig_params, channel_params, written,
                              ber_dict, printed, archived, prev_written>>

\* a[start:stop] of Python, a negative index counting from the end
PyIndex(n, len) ==
    IF n < 0 THEN (IF n + len < 0 THEN 0 ELSE n + len)
    ELSE (IF n > len THEN len ELSE n)

PySlice(a, start, stop) ==
    LET lo == PyIndex(start, Len(a))
        hi == PyIndex(stop, Len(a))
    IN IF hi <= lo THEN <<>> ELSE SubSeq(a, lo + 1, hi)

\* a[::step]
PyStride(a, step) == [k \in 1..CeilDiv(Len(a), step) |-> a[(k - 1) * step + 1]]

\* I + 1j * Q for arrays of one length
Complex(I, Q) == [k \in 1..Len(I) |-> <<I[k], Q[k]>>]

\* (np.real(symbols) >= 0).astype(int)
DemapBits(symbols) == [k \in 1..Len(symbols) |-> IF symbols[k][1] >= 0 THEN 1 ELSE 0]

\* calculate_ber_BPSK for streams of equal length: the value in thousandths,
\* nan for 0 / 0 (numpy divides with a warning, it does not raise)
calculate_ber_BPSK(xI, xQ, yI, yQ, sps, trim) ==
    LET tx_I == PySlice(xI, trim, 0 - trim)
        tx_Q == PySlice(xQ, trim, 0 - trim)
        rx_I == PySlice(yI, trim, 0 - trim)
        rx_Q == PySlice(yQ, trim, 0 - trim)
        rx_complex == Complex(rx_I, rx_Q)
        tx_complex == Complex(tx_I, tx_Q)
        tx_symbols == PyStride(tx_complex, sps)
        rx_symbols == PyStride(rx_complex, sps)
        tx_bits == DemapBits(tx_symbols)
        rx_bits == DemapBits(rx_symbols)
        bit_errors == Cardinality({k \in 1..Len(tx_bits) : tx_bits[k] # rx_bits[k]})
        total_bits == Len(tx_bits)
    IN IF total_bits = 0
       THEN [nan |-> TRUE, v |-> 0]
       ELSE [nan |-> FALSE, v |-> (bit_errors * 1000) \div total_bits]

\* calculate_ber_BPSK(xI, xQ, yI, yQ, sps, trim) inside generate_linear: the
\* fraction of differing bit decisions in thousandths; it depends on the
\* samples, so any fraction the model distinguishes may come out; 0 / 0 is nan
BerOutcomes(xlen, sps, trim) ==
    LET total_bits == CeilDiv(SliceLen(xlen, trim, trim), sps)
    IN IF total_bits = 0
       THEN { [nan |-> TRUE, v |-> 0] }
       ELSE { [nan |-> FALSE, v |-> (e * 1000) \div total_bits] :
                e \in {0, total_bits} }

\* faulty variant: a later measurement replaces the earlier ones of its snr
BerRecord_Overwrite(d, snr, ber) ==
    IF \E k \in 1..Len(d) : d[k][1] = snr
    THEN [k \in 1..Len(d) |-> IF d[k][1] = snr THEN <<snr, <<ber>> >> ELSE d[k]]
    ELSE Append(d, <<snr, <<ber>> >>)

\* ber_dict[snr] = [ber] or ber_dict[snr].append(ber)
BerRecord(d, snr, ber) ==
    IF \E k \in 1..Len(d) : d[k][1] = snr
    THEN [k \in 1..Len(d) |->
            IF d[k][1] = snr THEN <<snr, Append(d[k][2], ber)>> ELSE d[k]]
    ELSE Append(d, <<snr, <<ber>> >>)

\* faulty variant: the composite that is written is measured
BerCall_Composite(l) ==
    [fn |-> "calculate_ber_BPSK", sub |-> 0, xlen |-> linear_n_samps - buf,
     sps |-> l.sps, trim |-> halfbuf]

\* calculate_ber_BPSK(xI, xQ, yI, yQ, sps.value, trim=halfbuf): xI, xQ, yI, yQ
\* are the buffers that the latest pass of the center-frequency loop bound
BerCall(l) ==
    [fn |-> "calculate_ber_BPSK", sub |-> l.sub, xlen |-> l.xlen,
     sps |-> l.sps, trim |-> halfbuf]

\* faulty variant: every linear scheme is measured
IsReferenceScheme_AnyName(m) == TRUE

\* if mod[-1] == "bpsk"
IsReferenceScheme(m) == Last(m) = "bpsk"

\* the metadata, the BER measurement of a bpsk capture and save_sigmf
LinearCaptureEndStep(ok) ==
    /\ pc = "linear_cf"
    /\ ci > Len(center_frequencies)
    /\ IF ~loc.bound
       THEN /\ Raise("UnboundLocalError")
            /\ UNCHANGED_ON_RAISE
       ELSE LET metadata ==
                    [modname |-> Last(mod), modclass |-> CInt(mod[1]),
                     order |-> loc.order, n_samps |-> linear_n_samps - buf,
                     sampling_rate |-> sampling_rate,
                     center_frequencies |-> center_frequencies,
                     channel_type |-> channel_type, snr |-> loc.snr,
                     filter_type |-> "rrc", sps |-> loc.sps, fo |-> loc.fo,
                     po |-> loc.po, delay |-> loc.delay, beta |-> loc.beta,
                     dt |-> loc.dt, savepath |-> savepath, savename |-> savename]
            IN /\ IF IsReferenceScheme(mod)
                  THEN /\ \E ber \in BerOutcomes(BerCall(loc).xlen,
                                                  BerCall(loc).sps,
                                                  BerCall(loc).trim) :
                             ber_dict' = BerRecord(ber_dict, loc.snr, ber)
                       /\ calls' = Append(calls, BerCall(loc))
                  ELSE UNCHANGED <<ber_dict, calls>>
               /\ IF ok
                  THEN /\ SaveSigmf(linear_n_samps - buf, linear_n_samps - buf,
                                    calls, metadata, start_idx + i)
                       /\ i' = i + 1
                       /\ pc' = "linear_loop"
                       /\ UNCHANGED error
                  ELSE /\ Raise("OSError")
                       /\ UNCHANGED <<written, i>>
               /\ UNCHANGED <<ber_args, ber_ret, mix, config, rng_seed, rng, run, mi, idx,
                              start_idx, ci, sig_params, channel_params, loc,
                              n_calls, printed, archived, prev_written>>

LinearCaptureEnd == LinearCaptureEndStep(TRUE)

\* the same step when save_sigmf raises an I/O error
LinearWriteFails == loc.bound /\ LinearCaptureEndStep(FALSE)

\* sum(ber_list) / len(ber_list)
RECURSIVE BerSum(_)
BerSum(l) == IF l = <<>> THEN 0 ELSE l[1].v + BerSum(Tail(l))

BerAverage(l) ==
    [nan |-> \E k \in 1..Len(l) : l[k].nan, v |-> BerSum(l) \div Len(l)]

\* dict(sorted(avg_ber_dict.items())): ascending in the snr
RECURSIVE SortBySnr(_)
SortBySnr(d) ==
    IF d = <<>> THEN <<>>
    ELSE LET m == CHOOSE k \in 1..Len(d) : \A j \in 1..Len(d) : d[k][1] <= d[j][1]
         IN <<d[m]>> \o SortBySnr([k \in 1..(Len(d) - 1) |->
                                     IF k < m THEN d[k] ELSE d[k + 1]])

\* if avg_ber_dict != {}: the line "Average BER per SNR:" and one line
\* "SNR = ...: AVG_BER = ..." for each item of the sorted dictionary
BerReport(d) ==
    LET avg    == [k \in 1..Len(d) |-> <<d[k][1], BerAverage(d[k][2])>>]
        sorted == SortBySnr(avg)
    IN IF d = <<>> THEN <<>>
       ELSE << [line |-> "Average BER per SNR:"] >> \o
            [k \in 1..Len(sorted) |->
               [line |-> "AVG_BER", snr |-> sorted[k][1], avg_ber |-> sorted[k][2]]]

\* after the loop: the BER report and return idx_start + config["n_captures"];
\* the frame, with ber_dict and the loop's locals, ends here
LinearReturn ==
    /\ pc = "linear_loop"
    /\ i >= n_captures
    /\ ReturnToRunTx(start_idx + n_captures, BerReport(ber_dict))
    /\ ber_dict' = <<>>
    /\ loc' = NoLocals
    /\ UNCHANGED <<ber_args, ber_ret, mix, config, rng_seed, rng, run, error, start_idx, i, ci,
                   sig_params, channel_params, calls, n_calls, written,
                   archived, prev_written>>

---------------------------------------------------------------------------
(* The program is launched a second time with the same configuration and    *)
(* the same seed: __main__ seeds numpy's generator again and calls run_tx.  *)

Relaunch ==
    /\ run = 1
    /\ pc \in {"done", "error"}
    /\ run' = 2
    /\ prev_written' = written
    /\ UNCHANGED <<ber_args, ber_ret, mix, config, rng_seed>>
    /\ rng' = SeedRng(rng_seed)
    /\ pc' = "run_tx"
    /\ error' = "none"
    /\ mi' = 1
    /\ idx' = 0
    /\ start_idx' = 0
    /\ i' = 0
    /\ ci' = 0
    /\ sig_params' = <<>>
    /\ channel_params' = <<>>
    /\ loc' = NoLocals
    /\ calls' = <<>>
    /\ n_calls' = 0
    /\ written' = <<>>
    /\ ber_dict' = <<>>
    /\ printed' = <<>>
    /\ archived' = FALSE

Next ==
    \/ RunTxDispatch
    \/ RunTxUndefinedModem
    \/ RunTxFinish
    \/ NoiseSample
    \/ NoiseCapture
    \/ NoiseReturn
    \/ AmSample
    \/ AmCapture
    \/ AmReturn
    \/ FmSample
    \/ FmCapture
    \/ FmReturn
    \/ FskSample
    \/ FskCapture
    \/ FskReturn
    \/ LinearSample
    \/ LinearCaptureBegin
    \/ LinearSubSignal
    \/ LinearCaptureEnd
    \/ LinearReturn
    \/ Relaunch

Spec == Init /\ [][Next]_vars

\* one launch of the program in which save_sigmf may raise an I/O error
NextIO ==
    \/ RunTxDispatch
    \/ RunTxUndefinedModem
    \/ RunTxFinish
    \/ NoiseSample
    \/ NoiseCapture
    \/ NoiseWriteFails
    \/ NoiseReturn
    \/ AmSample
    \/ AmCapture
    \/ AmWriteFails
    \/ AmReturn
    \/ FmSample
    \/ FmCapture
    \/ FmWriteFails
    \/ FmReturn
    \/ FskSample
    \/ FskCapture
    \/ FskWriteFails
    \/ FskReturn
    \/ LinearSample
    \/ LinearCaptureBegin
    \/ LinearSubSignal
    \/ LinearCaptureEnd
    \/ LinearWriteFails
    \/ LinearReturn

SpecIO == Init /\ [][NextIO]_vars

----------------------------------------------------------------------------
(* calculate_ber_BPSK called on its own, over small streams *)

MaxStream == 4
MaxTrim == 1
MaxSps == 2

\* streams of samples, in-phase with both signs and zero; quadrature constant
IStreams(len) == [1..len -> {0 - 1, 0, 1}]
QStreams(len) == { [k \in 1..len |-> q] : q \in {0 - 1, 1} }

BerArguments ==
    UNION { [xI : IStreams(len), xQ : QStreams(len), yI : IStreams(len),
             yQ : QStreams(len), sps : 1..MaxSps, trim : 0..MaxTrim] :
            len \in 0..MaxStream }

InitBer ==
    /\ config = [modulation |-> <<>>, n_captures |-> 0, n_samps |-> 0,
                 center_frequencies |-> <<>>,
                 channel |-> [type |-> "awgn", pool |-> <<>>], archive |-> FALSE]
    /\ rng_seed = 1
    /\ run = 1
    /\ prev_written = <<>>
    /\ ber_args \in BerArguments
    /\ ber_ret = <<>>
    /\ mix = <<>>
    /\ Launch

\* ber = calculate_ber_BPSK(xI, xQ, yI, yQ, sps, trim)
CalculateBer ==
    /\ ber_ret = <<>>
    /\ ber_ret' = << calculate_ber_BPSK(ber_args.xI, ber_args.xQ, ber_args.yI,
                                       ber_args.yQ, ber_args.sps, ber_args.trim) >>
    /\ UNCHANGED <<ber_args, mix, config, rng_seed, rng, run, pc, error, mi, idx,
                   start_idx, i, ci, sig_params, channel_params, loc, calls,
                   n_calls, written, ber_dict, printed, archived, prev_written>>

NextBer == CalculateBer

SpecBer == InitBer /\ [][NextBer]_vars

----------------------------------------------------------------------------
(* The composite of generate_linear, sample by sample: the capture loop    *)
(* with the sub-signals that the signal chain returns as inputs            *)

MixSamps == 2
MixCaptures == 2

\* center frequencies that are multiples of a quarter of the sampling rate:
\* the phase 2 * pi * center_freq * t is then a whole number of quarter turns
MixFrequencyLists ==
    { <<0>>, <<250000>>, <<0, 250000>>, <<250000, 0>>, <<0, 0>>,
      <<250000, 250000>> }

\* the trimmed sub-signals np.array(yI)[halfbuf:-halfbuf], np.array(yQ)[...]
SubSignals(len) ==
    [I : [1..len -> {0 - 1, 1}], Q : { [k \in 1..len |-> q] : q \in {0 - 1, 1} }]

\* faulty variant: the buffer is not cleared
Zeros_Ones(len) == [k \in 1..len |-> 1]

\* np.zeros(n_samps - buf, dtype=np.float32)
Zeros(len) == [k \in 1..len |-> 0]

\* the phase of np.exp(1j * 2 * np.pi * center_freq * t) at sample k,
\* t = np.arange(n_samps - buf) / sampling_rate, in quarter turns
QuarterTurns(center_freq, k) == ((4 * center_freq * k) \div sampling_rate) % 4

\* np.real(freq_shift) and np.imag(freq_shift) at sample k
ShiftReal(center_freq, k) ==
    CASE QuarterTurns(center_freq, k) = 0 -> 1
      [] QuarterTurns(center_freq, k) = 2 -> 0 - 1
      [] OTHER -> 0

ShiftImag(center_freq, k) ==
    CASE QuarterTurns(center_freq, k) = 1 -> 1
      [] QuarterTurns(center_freq, k) = 3 -> 0 - 1
      [] OTHER -> 0

\* I_shifted = I * np.real(freq_shift) - Q * np.imag(freq_shift)
IShifted(I, Q, center_freq) ==
    [k \in 1..Len(I) |-> I[k] * ShiftReal(center_freq, k - 1)
                            - Q[k] * ShiftImag(center_freq, k - 1)]

\* Q_shifted = I * np.imag(freq_shift) + Q * np.real(freq_shift)
QShifted(I, Q, center_freq) ==
    [k \in 1..Len(I) |-> I[k] * ShiftImag(center_freq, k - 1)
                            + Q[k] * ShiftReal(center_freq, k - 1)]

InitMix ==
    /\ config \in { [modulation |-> << <<1, 2, "bpsk">> >>,
                      n_captures |-> MixCaptures, n_samps |-> MixSamps,
                      center_frequencies |-> cf,
                      channel |-> [type |-> "awgn", pool |-> AwgnPool],
                      archive |-> FALSE] : cf \in MixFrequencyLists }
    /\ rng_seed = 1
    /\ run = 1
    /\ prev_written = <<>>
    /\ ber_args = <<>>
    /\ ber_ret = <<>>
    /\ mix = [at |-> "loop", i |-> 0, ci |-> 0, I_total |-> <<>>,
              Q_total |-> <<>>, parts |-> <<>>, saved |-> <<>>]
    /\ Launch

MixUnchanged ==
    UNCHANGED <<ber_args, ber_ret, config, rng_seed, rng, run, pc, error, mi, idx,
                start_idx, i, ci, sig_params, channel_params, loc, calls,
                n_calls, written, ber_dict, printed, archived, prev_written>>

\* the head of the capture loop: I_total and Q_total are new arrays of zeros
MixCaptureBegin ==
    /\ mix.at = "loop"
    /\ mix.i < n_captures
    /\ mix' = [mix EXCEPT !.at = "cf", !.ci = 1, !.parts = <<>>,
                          !.I_total = Zeros(linear_n_samps - buf),
                          !.Q_total = Zeros(linear_n_samps - buf)]
    /\ MixUnchanged

\* one pass of the center-frequency loop: the sub-signal is shifted and added
MixSubSignal ==
    /\ mix.at = "cf"
    /\ mix.ci <= Len(center_frequencies)
    /\ \E sub \in SubSignals(linear_n_samps - buf) :
          LET center_freq == center_frequencies[mix.ci]
              I_shifted == IShifted(sub.I, sub.Q, center_freq)
              Q_shifted == QShifted(sub.I, sub.Q, center_freq)
          IN mix' = [mix EXCEPT
                       !.ci = mix.ci + 1,
                       !.parts = Append(mix.parts,
                                   [I |-> sub.I, Q |-> sub.Q,
                                    center_freq |-> center_freq]),
                       !.I_total = [k \in 1..Len(mix.I_total) |->
                                      mix.I_total[k] + I_shifted[k]],
                       !.Q_total = [k \in 1..Len(mix.Q_total) |->
                                      mix.Q_total[k] + Q_shifted[k]]]
    /\ MixUnchanged

\* after the center-frequency loop: save_sigmf(I_total, Q_total, metadata, ...)
MixCaptureEnd ==
    /\ mix.at = "cf"
    /\ mix.ci > Len(center_frequencies)
    /\ mix' = [mix EXCEPT !.at = "loop", !.i = mix.i + 1,
                          !.saved = << [I |-> mix.I_total, Q |-> mix.Q_total,
                                        index |-> start_idx + mix.i] >>]
    /\ MixUnchanged

NextMix ==
    \/ MixCaptureBegin
    \/ MixSubSignal
    \/ MixCaptureEnd

SpecMix == InitMix /\ [][NextMix]_vars

---------------------------------------------------------------------------
(* Vocabulary of the properties *)

\* the metadata records handed to save_sigmf
Metadata(k) == written[k].metadata

\* the entry of config["modulation"] that a capture's modname names
EntryNamed(name) == CHOOSE e \in ModEntries : Last(e) = name

FamilyOf(k) == mod_int2modem(EntryNamed(Metadata(k).modname)[1])

KnownChannelTypes == {"awgn", "rayleigh", "rician"}

\* a rayleigh or rician tuple whose path_delays and path_gains differ in length
Malformed(cp) ==
    \/ Len(cp) = 6 /\ Len(cp[5]) # Len(cp[6])
    \/ Len(cp) = 7 /\ Len(cp[6]) # Len(cp[7])

\* the values of argument f in the C calls that produced capture k
Passed(k, f) ==
    LET chain == written[k].chain
    IN { chain[j][f] : j \in { j \in 1..Len(chain) : f \in DOMAIN chain[j] } }

\* the numeric value recorded for field f of capture k; the FSK beta is the
\* string "none" (no value) or beta.value
Recorded(k, f) ==
    IF f = "beta" /\ FamilyOf(k) = "freq_shift"
    THEN { Metadata(k).beta[j] : j \in 1..Len(Metadata(k).beta) }
    ELSE { Metadata(k)[f] }

ParamFields ==
    {"snr", "fo", "po", "sps", "beta", "delay", "dt", "mod_idx", "mod_factor"}

\* the channel model that a C channel function applies
ChannelModelOf(fn) ==
    CASE fn = "channel"          -> "awgn"
      [] fn = "rayleigh_channel" -> "rayleigh"
      [] fn = "rician_channel"   -> "rician"
      [] OTHER                   -> "no channel"

AppliedChannels(k) ==
    LET chain == written[k].chain
    IN { ChannelModelOf(chain[j].fn) : j \in 1..Len(chain) } \ {"no channel"}

---------------------------------------------------------------------------
(* Properties *)

\* C1: over a run with n_captures >= 1, the k-th call of save_sigmf carries the
\* index k - 1 (0, 1, 2, ... without gap or repeat), and each batch starts at the
\* index where the previous one ended: between batches run_tx's idx is the number
\* of captures written so far.
C1_IndicesContiguous ==
    config.n_captures >= 1 =>
        /\ \A k \in 1..Len(written) : written[k].index = k - 1
        /\ pc = "run_tx" => idx = Len(written)

\* two batches of two captures each have run to the end
C1_Witness ==
    /\ pc = "done"
    /\ Len(config.modulation) = 2
    /\ config.n_captures = 2
    /\ Len(written) = 4
    /\ written[2].metadata.modname # written[3].metadata.modname

\* C2: for every capture of every family, the I and Q buffers handed to the
\* writer have length config["n_samps"], whatever the number of center
\* frequencies, and the metadata n_samps equals that length.
C2_BufferLength ==
    \A k \in 1..Len(written) :
        /\ written[k].I_len = config.n_samps
        /\ written[k].Q_len = config.n_samps
        /\ Metadata(k).n_samps = written[k].I_len

\* a linear batch composed of two center frequencies and an FSK batch were written
C2_Witness ==
    /\ pc = "done"
    /\ config.n_samps = 5
    /\ Len(center_frequencies) = 2
    /\ Len(written) = 4
    /\ FamilyOf(1) = "linear"
    /\ FamilyOf(4) = "freq_shift"

\* C3 (as claimed): under a rayleigh or rician channel type, a malformed tuple
\* raises before any signal processing: when the assertion fails no C call has
\* been made and nothing has been written, and in no family does a capture that
\* drew a malformed tuple go through.
C3_MalformedFailsFirst ==
    /\ error = "AssertionError" => n_calls = 0 /\ written = <<>>
    /\ channel_type \in {"rayleigh", "rician"} =>
          \A k \in 1..Len(channel_params) : k <= i => ~Malformed(channel_params[k])

\* C4 (as claimed): no capture is written whose carrier_spacing is None.
C4_NoUndefinedCarrierSpacing ==
    \A k \in 1..Len(written) :
        "carrier_spacing" \in DOMAIN Metadata(k) => Metadata(k).carrier_spacing # <<>>

\* C5: an FSK entry with modulation index 0.5, 1.0 or 15.0 records the
\* carrier_spacing 2500, 5000 or 15000 Hz in every capture of its batch,
\* whatever shaping and channel parameters were sampled.
C5_CarrierSpacingLookup ==
    \A k \in 1..Len(written) :
        FamilyOf(k) = "freq_shift" =>
            LET modidx == EntryNamed(Metadata(k).modname)[3]
            IN /\ modidx = 500 => Metadata(k).carrier_spacing = <<2500>>
               /\ modidx = 1000 => Metadata(k).carrier_spacing = <<5000>>
               /\ modidx = 15000 => Metadata(k).carrier_spacing = <<15000>>

\* two captures of one FSK batch with index 15.0 drew different shaping and
\* channel parameters
C5_Witness ==
    /\ Len(written) = 2
    /\ Metadata(1).modname = "gfsk75k"
    /\ Metadata(2).modname = "gfsk75k"
    /\ Metadata(1).snr # Metadata(2).snr
    /\ Metadata(1).sps # Metadata(2).sps

\* C6 (as claimed): under a channel type outside {awgn, rayleigh, rician} no
\* capture is ever written.
C6_UnknownChannelTypeWritesNothing ==
    channel_type \notin KnownChannelTypes => written = <<>>

\* C7 (as claimed): every metadata record holds the center frequencies and the
\* modulation class.
C7_MetadataHasFrequenciesAndClass ==
    \A k \in 1..Len(written) :
        {"center_frequencies", "modclass"} \subseteq DOMAIN Metadata(k)

\* C8 (as claimed): every parameter recorded for a capture is exactly the value
\* passed to the calls that produced the capture's samples.
C8_RecordedIsPassed ==
    \A k \in 1..Len(written) :
        \A f \in ParamFields \cap DOMAIN Metadata(k) : Recorded(k, f) = Passed(k, f)

\* C8 (amended): the recorded snr, fo, po, sps, delay, modulation index or
\* factor, and the linear beta and dt, are exactly the values passed to the
\* calls that produced the capture.  In an FSK capture dt is passed to no call
\* and is the value drawn for that capture, and beta is the value passed for a
\* gaussian pulse and "none" for the square pulse, although a beta is passed.
C8_RecordedIsPassedExceptFsk ==
    /\ \A k \in 1..Len(written) :
          \A f \in ParamFields \cap DOMAIN Metadata(k) :
              IF FamilyOf(k) = "freq_shift" /\ f = "dt"
              THEN Passed(k, f) = {}
              ELSE IF FamilyOf(k) = "freq_shift" /\ f = "beta"
                      /\ Metadata(k).filter_type = "square"
              THEN Recorded(k, f) = {} /\ Cardinality(Passed(k, f)) = 1
              ELSE Recorded(k, f) = Passed(k, f)
    /\ pc = "fsk_loop" /\ i >= 1 =>
          Metadata(Len(written)).dt = CFloat(sig_params[i][4])

\* a linear capture of two sub-signals and a square-pulse FSK capture were
\* written, after captures that drew other parameters
C8_Witness ==
    /\ Len(written) = 4
    /\ FamilyOf(1) = "linear"
    /\ FamilyOf(4) = "freq_shift"
    /\ Len(written[2].chain) = 8
    /\ Metadata(1).snr # Metadata(2).snr
    /\ Metadata(4).filter_type = "square"
    /\ Metadata(3).sps # Metadata(4).sps

\* C9 (as claimed): the channel_type recorded for a capture names the channel
\* model applied to its samples.
C9_ChannelTypeIsApplied ==
    \A k \in 1..Len(written) : AppliedChannels(k) = { Metadata(k).channel_type }

----------------------------------------------------------------------------
(* C11 *)

\* C11: once a capture has failed, by a configuration error or by an I/O
\* error of the writer, the run is over: the exception is never handled, no
\* further capture is written, the failed capture is neither retried nor
\* skipped (the capture counter and the running index stay), no later batch
\* is started and the archive step does not run.
C11_FailureAborts ==
    /\ [](error # "none" => pc = "error" /\ ~archived)
    /\ [][error # "none" =>
            UNCHANGED <<written, i, idx, mi, start_idx, archived, pc, error>>]_vars

\* the writer fails on the second capture of the first of two batches, with
\* archiving requested
C11_Witness ==
    /\ pc = "error"
    /\ error = "OSError"
    /\ Len(written) = 1
    /\ i = 1
    /\ i < n_captures
    /\ mi = 1
    /\ mi < Len(config.modulation)
    /\ config.archive

----------------------------------------------------------------------------
(* C12 *)

\* C12: when run_tx reaches a modulation entry whose family is none of noise,
\* linear, amplitude, frequency, freq_shift, it raises an error there: no
\* generator is entered for the entry, no capture carries the entry's name,
\* the running index stays at the number of captures written before it, and
\* within the launch nothing is written and no entry is started afterwards.
C12_UnknownFamilyIsFatal ==
    /\ []((/\ mi <= Len(config.modulation)
           /\ mod_int2modem(mod[1]) \notin
                 {"None", "linear", "amplitude", "frequency", "freq_shift"})
          => /\ pc \in {"run_tx", "error"}
             /\ pc = "error" => error = "ValueError"
             /\ idx = Len(written)
             /\ \A k \in 1..Len(written) : Metadata(k).modname # Last(mod))
    /\ [][(/\ mi <= Len(config.modulation)
            /\ mod_int2modem(mod[1]) \notin
                  {"None", "linear", "amplitude", "frequency", "freq_shift"}
            /\ run' = run)
           => UNCHANGED <<written, idx, mi>> /\ pc' = "error"]_vars

\* the unknown entry comes second, after a batch of two captures was written
C12_Witness ==
    /\ pc = "error"
    /\ error = "ValueError"
    /\ mi = 2
    /\ mod_int2modem(mod[1]) = "ofdm"
    /\ Len(written) = 2
    /\ idx = 2

----------------------------------------------------------------------------
(* C13 *)

\* C13: a BER calculation over zero bits records nothing: no undefined value
\* (0 / 0, nan) is ever held by the per-SNR accumulator, and no printed
\* average is undefined.
C13_NoUndefinedBer ==
    /\ \A k \in 1..Len(ber_dict) :
          \A j \in 1..Len(ber_dict[k][2]) : ~ber_dict[k][2][j].nan
    /\ \A k \in 1..Len(printed) :
          printed[k].line = "AVG_BER" => ~printed[k].avg_ber.nan

----------------------------------------------------------------------------
(* C14 *)

\* C14: with an empty pool of channel parameters, the step that samples the
\* parameters of a batch raises nothing, whatever n_captures is: a batch of a
\* known family never ends in the ValueError of the sampling.
C14_EmptyPoolDoesNotRaise ==
    (/\ config.channel.pool = <<>>
     /\ mi <= Len(config.modulation)
     /\ mod_int2modem(mod[1]) \in
           {"None", "linear", "amplitude", "frequency", "freq_shift"})
    => ~(pc = "error" /\ error = "ValueError")

----------------------------------------------------------------------------
(* C15 *)

\* C15: with channel type rician, a sampled tuple whose k_factor is negative
\* raises an error before the channel model is called and before the capture
\* is written: the rician channel is never called with a negative k_factor,
\* neither in the capture under way nor in a capture that was written.
C15_NegativeKFactorFailsFast ==
    /\ \A j \in 1..Len(calls) :
          calls[j].fn = "rician_channel" => calls[j].k_factor >= 0
    /\ \A k \in 1..Len(written) :
          \A j \in 1..Len(written[k].chain) :
             written[k].chain[j].fn = "rician_channel"
                => written[k].chain[j].k_factor >= 0

----------------------------------------------------------------------------
(* C16 *)

\* C16: during a bpsk batch the accumulator holds, for each distinct snr of
\* the captures written so far in the batch, exactly one measurement per such
\* capture; and when a bpsk batch with n_captures >= 1 returns, it prints the
\* heading and then exactly one line for each snr of the accumulator, in
\* ascending snr, whose value is the arithmetic mean of that snr's
\* measurements (undefined when one of them is), before the batch's count.
C16_BerReport ==
    /\ []((pc \in {"linear_loop", "linear_cf"} /\ Last(mod) = "bpsk") =>
            /\ \A k, j \in 1..Len(ber_dict) :
                  ber_dict[k][1] = ber_dict[j][1] => k = j
            /\ \A k \in 1..Len(ber_dict) :
                  Len(ber_dict[k][2]) =
                     Cardinality({c \in (start_idx + 1)..Len(written) :
                                    Metadata(c).snr = ber_dict[k][1]})
            /\ \A c \in (start_idx + 1)..Len(written) :
                  \E k \in 1..Len(ber_dict) : ber_dict[k][1] = Metadata(c).snr)
    /\ [][(/\ pc = "linear_loop"
            /\ pc' = "run_tx"
            /\ Last(mod) = "bpsk"
            /\ n_captures >= 1)
           => LET new == SubSeq(printed', Len(printed) + 1, Len(printed'))
              IN /\ Len(written) = start_idx + n_captures
                 /\ Len(ber_dict) >= 1
                 /\ Len(new) = Len(ber_dict) + 2
                 /\ new[1].line = "Average BER per SNR:"
                 /\ new[Len(new)].line = "count"
                 /\ \A k \in 2..(Len(new) - 1) :
                       /\ new[k].line = "AVG_BER"
                       /\ k > 2 => new[k - 1].snr < new[k].snr
                       /\ \E j \in 1..Len(ber_dict) :
                             LET l == ber_dict[j][2]
                             IN /\ ber_dict[j][1] = new[k].snr
                                /\ new[k].avg_ber.nan =
                                      (\E m \in 1..Len(l) : l[m].nan)
                                /\ ~new[k].avg_ber.nan =>
                                      /\ new[k].avg_ber.v * Len(l) <= BerSum(l)
                                      /\ BerSum(l) < (new[k].avg_ber.v + 1) * Len(l)
          ]_vars

\* a bpsk batch of two captures with the same snr, one measured without
\* errors and one with every bit wrong, has returned: one line, the mean 0.5
C16_Witness ==
    /\ pc = "run_tx"
    /\ Len(written) >= 2
    /\ Len(printed) >= 3
    /\ printed[Len(printed)] = [line |-> "count", modname |-> "bpsk", count |-> 2]
    /\ Metadata(Len(written)).modname = "bpsk"
    /\ Metadata(Len(written)).snr = Metadata(Len(written) - 1).snr
    /\ printed[Len(printed) - 2].line = "Average BER per SNR:"
    /\ printed[Len(printed) - 1].line = "AVG_BER"
    /\ printed[Len(printed) - 1].snr = Metadata(Len(written)).snr
    /\ printed[Len(printed) - 1].avg_ber = [nan |-> FALSE, v |-> 500]

----------------------------------------------------------------------------
(* C17 *)

\* C17 as stated: in every generator the buffers xI, xQ, yI, yQ of a
\* sub-signal have config["n_samps"] + 2 * 4096 elements, and the payload is
\* what remains after 2048 elements are removed from each end.
C17_BuffersPaddedTwoBuf ==
    \A k \in 1..Len(written) :
       \A j \in 1..Len(written[k].chain) :
          "xlen" \in DOMAIN written[k].chain[j] =>
             /\ written[k].chain[j].xlen = config.n_samps + 2 * 4096
             /\ written[k].I_len = written[k].chain[j].xlen - 2 * 2048

\* C17 amended: in every generator the buffers xI, xQ, yI, yQ of a sub-signal
\* have config["n_samps"] + 4096 elements (buf = 4096, that is 2048 at each
\* end), and the payload is what remains after 2048 elements are removed
\* from each end: the trimmed sub-signal of a linear capture and the buffers
\* handed to the writer have the buffer's length less 2 * 2048.
C17_BuffersPaddedBuf ==
    \A k \in 1..Len(written) :
       \A j \in 1..Len(written[k].chain) :
          /\ "xlen" \in DOMAIN written[k].chain[j] =>
                /\ written[k].chain[j].xlen = config.n_samps + 4096
                /\ written[k].I_len = written[k].chain[j].xlen - 2 * 2048
                /\ written[k].Q_len = written[k].chain[j].xlen - 2 * 2048
          /\ written[k].chain[j].fn = "freq_shift" =>
                written[k].chain[j].len = (config.n_samps + 4096) - 2 * 2048

\* a linear capture of two sub-signals and a capture of another family were
\* written with config["n_samps"] = 5: buffers of 4101, payloads of 5
C17_Witness ==
    /\ config.n_samps = 5
    /\ \E k, m \in 1..Len(written) :
          /\ FamilyOf(k) = "linear"
          /\ Len(written[k].chain) = 8
          /\ written[k].chain[2].xlen = 4101
          /\ written[k].chain[8].len = 5
          /\ FamilyOf(m) # "linear"
          /\ written[m].chain[1].xlen = 4101
          /\ written[m].I_len = 5

----------------------------------------------------------------------------
(* C18 *)

\* C18: in generate_linear and generate_fsk, whatever sps and n_samps are,
\* the symbol count n_sym = ceil(padded length / sps) handed to the signal
\* chain satisfies n_sym * sps = padded length, the length of the buffers.
C18_SymbolsFillBuffers ==
    \A k \in 1..Len(written) :
       FamilyOf(k) \in {"linear", "freq_shift"} =>
          \A j \in 1..Len(written[k].chain) :
             {"n_sym", "sps", "xlen"} \subseteq DOMAIN written[k].chain[j] =>
                written[k].chain[j].n_sym * written[k].chain[j].sps
                   = written[k].chain[j].xlen

----------------------------------------------------------------------------
(* C19 *)

----------------------------------------------------------------------------
(* C20 *)

\* C20: only a linear batch named "bpsk" measures, accumulates and reports a
\* BER: while run_tx is at any other entry, and after the last entry, the
\* accumulator is empty, and every printed line of a BER report belongs to
\* the output of a bpsk batch, that is, the next count line after it is the
\* one of a batch named "bpsk".
C20_BerOnlyForBpsk ==
    /\ (mi <= Len(config.modulation)
           /\ ~(mod_int2modem(mod[1]) = "linear" /\ Last(mod) = "bpsk"))
          => ber_dict = <<>>
    /\ mi > Len(config.modulation) => ber_dict = <<>>
    /\ \A k \in 1..Len(printed) :
          printed[k].line \in {"Average BER per SNR:", "AVG_BER"} =>
             \E j \in (k + 1)..Len(printed) :
                /\ printed[j].line = "count"
                /\ printed[j].modname = "bpsk"
                /\ \A m \in (k + 1)..(j - 1) : printed[m].line # "count"

\* a bpsk batch and then a qpsk batch of two captures each have returned:
\* the report of the first, and only its count for the second
C20_Witness ==
    /\ pc = "done"
    /\ Len(written) = 4
    /\ Len(printed) >= 4
    /\ printed[1].line = "Average BER per SNR:"
    /\ printed[2].line = "AVG_BER"
    /\ printed[Len(printed) - 1] = [line |-> "count", modname |-> "bpsk", count |-> 2]
    /\ printed[Len(printed)] = [line |-> "count", modname |-> "qpsk", count |-> 2]

----------------------------------------------------------------------------
(* C21 *)

\* C21: for every modulation entry and every n_captures >= 0, the generator
\* called for the entry returns idx_start + n_captures: each count that
\* run_tx prints is n_captures, and a batch of no captures (of a known family
\* and, for FM, a known variant) returns instead of raising.
C21_ReturnsStartPlusCaptures ==
    /\ \A k \in 1..Len(printed) :
          printed[k].line = "count" => printed[k].count = n_captures
    /\ (/\ n_captures = 0
        /\ mi <= Len(config.modulation)
        /\ mod_int2modem(mod[1]) \in
              {"None", "linear", "amplitude", "frequency", "freq_shift"}
        /\ mod_int2modem(mod[1]) = "frequency" => mod[2] \in {0, 1})
       => pc # "error"

----------------------------------------------------------------------------
(* C22 *)

\* C22 amended: inside the capture loop of every generator the sampled
\* channel parameters are a sequence of n_captures members of the configured
\* pool, and in every generator except generate_noise, which samples no
\* shaping parameters, the sampled shaping parameters are a sequence of
\* n_captures members of the generator's configured list or product; the
\* sequences do not change during the loop; the j-th capture of the batch
\* records the values of the j-th pair, and every call made for a sub-signal
\* of a linear capture carries the snr and the sps of that one pair.
C22_SampledPairs ==
    /\ [](pc \in {"noise_loop", "am_loop", "fm_loop", "fsk_loop",
                  "linear_loop", "linear_cf"} =>
          /\ Len(channel_params) = n_captures
          /\ \A k \in 1..Len(channel_params) :
                \E x \in 1..Len(config.channel.pool) :
                   channel_params[k] = config.channel.pool[x]
          /\ pc # "noise_loop" => Len(sig_params) = n_captures
          /\ pc = "am_loop" =>
                \A k \in 1..Len(sig_params) :
                   \E x \in 1..Len(am_defaults.modulation_index) :
                      sig_params[k] = am_defaults.modulation_index[x]
          /\ pc = "fm_loop" =>
                \A k \in 1..Len(sig_params) :
                   LET l == IF mod[2] = 0 THEN fmnb_defaults.modulation_factor
                                         ELSE fmwb_defaults.modulation_factor
                   IN \E x \in 1..Len(l) : sig_params[k] = l[x]
          /\ pc \in {"fsk_loop", "linear_loop", "linear_cf"} =>
                \A k \in 1..Len(sig_params) :
                   LET f == IF pc = "fsk_loop" THEN gaussian_filter ELSE rrc_filter
                   IN /\ Len(sig_params[k]) = 4
                      /\ \E x \in 1..Len(symbol_rate) :
                            sig_params[k][1] = symbol_rate[x]
                      /\ \E x \in 1..Len(f.beta) : sig_params[k][2] = f.beta[x]
                      /\ \E x \in 1..Len(f.delay) : sig_params[k][3] = f.delay[x]
                      /\ \E x \in 1..Len(f.dt) : sig_params[k][4] = f.dt[x]
          /\ \A c \in (start_idx + 1)..Len(written) :
                LET j == c - start_idx
                IN /\ Metadata(c).snr = CFloat(channel_params[j][1])
                   /\ pc = "am_loop" =>
                         Metadata(c).mod_idx = CFloat(sig_params[j])
                   /\ pc = "fm_loop" =>
                         Metadata(c).mod_factor = CFloat(sig_params[j])
                   /\ pc \in {"fsk_loop", "linear_loop", "linear_cf"} =>
                         /\ Metadata(c).sps = sig_params[j][1]
                         /\ Metadata(c).delay = sig_params[j][3]
                         /\ \A m \in 1..Len(written[c].chain) :
                               LET call == written[c].chain[m]
                               IN /\ "snr" \in DOMAIN call =>
                                        call.snr = CFloat(channel_params[j][1])
                                  /\ "sps" \in DOMAIN call =>
                                        call.sps = sig_params[j][1]
          /\ pc = "linear_cf" =>
                \A m \in 1..Len(calls) :
                   /\ "snr" \in DOMAIN calls[m] =>
                         calls[m].snr = CFloat(channel_params[i + 1][1])
                   /\ "sps" \in DOMAIN calls[m] =>
                         calls[m].sps = sig_params[i + 1][1])
    /\ [][(/\ pc \in {"noise_loop", "am_loop", "fm_loop", "fsk_loop",
                       "linear_loop", "linear_cf"}
            /\ pc' \in {"noise_loop", "am_loop", "fm_loop", "fsk_loop",
                        "linear_loop", "linear_cf"})
           => UNCHANGED <<sig_params, channel_params>>]_vars

\* C22 as stated: the same, and generate_noise too holds a shaping-parameter
\* sequence of length n_captures inside its capture loop.
C22_SampledPairsInEveryGenerator ==
    /\ C22_SampledPairs
    /\ [](pc = "noise_loop" => Len(sig_params) = n_captures)

\* the second capture of a linear batch is under way with two sub-signals
\* processed, and the two captures drew different channel tuples and
\* different samples-per-symbol
C22_Witness ==
    /\ pc = "linear_cf"
    /\ i = 1
    /\ ci = 3
    /\ Len(calls) = 8
    /\ Len(written) >= 1
    /\ channel_params[1] # channel_params[2]
    /\ sig_params[1][1] # sig_params[2][1]

----------------------------------------------------------------------------
(* C23 *)

\* C23: inside the center-frequency loop of a capture the composite holds,
\* sample by sample, the sum of one contribution for each entry of the
\* center-frequency list processed so far in this capture, in the list's
\* order and once per occurrence, and nothing else: it is all zeros before the
\* first, it is not rescaled, and the contribution of a sub-signal (I, Q) at
\* center frequency f is I*cos - Q*sin and I*sin + Q*cos, which for f = 0 is
\* (I, Q) itself; the buffers handed to the writer are that composite, after
\* every entry of the list has contributed.
C23_CompositeIsSumOfShifted ==
    /\ [](mix.at = "cf" =>
          /\ Len(mix.parts) = mix.ci - 1
          /\ Len(mix.I_total) = config.n_samps
          /\ Len(mix.Q_total) = config.n_samps
          /\ \A p \in 1..Len(mix.parts) :
                mix.parts[p].center_freq = center_frequencies[p]
          /\ \A k \in 1..config.n_samps :
                LET ic(p) == mix.parts[p].I[k]
                               * ShiftReal(mix.parts[p].center_freq, k - 1)
                             - mix.parts[p].Q[k]
                               * ShiftImag(mix.parts[p].center_freq, k - 1)
                    qc(p) == mix.parts[p].I[k]
                               * ShiftImag(mix.parts[p].center_freq, k - 1)
                             + mix.parts[p].Q[k]
                               * ShiftReal(mix.parts[p].center_freq, k - 1)
                    ps == 1..Len(mix.parts)
                IN /\ \A p \in ps : ic(p) \in {0 - 1, 1} /\ qc(p) \in {0 - 1, 1}
                   /\ mix.I_total[k] = Cardinality({p \in ps : ic(p) = 1})
                                        - Cardinality({p \in ps : ic(p) = 0 - 1})
                   /\ mix.Q_total[k] = Cardinality({p \in ps : qc(p) = 1})
                                        - Cardinality({p \in ps : qc(p) = 0 - 1})
          /\ (Len(mix.parts) = 1 /\ mix.parts[1].center_freq = 0) =>
                mix.I_total = mix.parts[1].I /\ mix.Q_total = mix.parts[1].Q)
    /\ [][(mix.at = "cf" /\ mix'.at = "loop") =>
            /\ Len(mix.parts) = Len(center_frequencies)
            /\ mix'.saved = << [I |-> mix.I_total, Q |-> mix.Q_total,
                                index |-> mix.i] >>]_vars

\* the second capture was handed to the writer, composed of two sub-signals
\* at the same non-zero center frequency that add up at the second sample,
\* after a first capture whose composite was not zero
C23_Witness ==
    /\ mix.at = "loop"
    /\ mix.i = 2
    /\ center_frequencies = <<250000, 250000>>
    /\ mix.saved[1].index = 1
    /\ mix.saved[1].I[2] = 2
    /\ mix.parts[1].Q[2] = 0 - 1
    /\ mix.parts[2].Q[2] = 0 - 1

----------------------------------------------------------------------------
(* C24 *)

----------------------------------------------------------------------------
(* C25 *)

\* C25: while run_tx is at a linear entry with an empty center-frequency
\* list and n_captures >= 1, no capture of the batch is written and the loop
\* variable stays at the first capture; if the parameters were sampled, the
\* run ends in the error of reading a name that only the center-frequency
\* loop binds; and within the launch run_tx never leaves that entry.
C25_EmptyFrequencyListWritesNothing ==
    /\ []((/\ mi <= Len(config.modulation)
           /\ mod_int2modem(mod[1]) = "linear"
           /\ center_frequencies = <<>>
           /\ n_captures >= 1)
          => /\ Len(written) = idx
             /\ pc \in {"run_tx", "generate_linear", "linear_loop", "linear_cf",
                        "error"}
             /\ pc \in {"linear_loop", "linear_cf"} => i = 0
             /\ pc = "linear_cf" => calls = <<>>
             /\ (pc = "error" /\ config.channel.pool # <<>>)
                   => error = "UnboundLocalError" /\ i = 0)
    /\ [][(/\ mi <= Len(config.modulation)
            /\ mod_int2modem(mod[1]) = "linear"
            /\ center_frequencies = <<>>
            /\ n_captures >= 1
            /\ run' = run)
           => mi' = mi /\ written' = written]_vars

\* the second entry is linear, the list is empty: the first batch wrote its
\* two captures and the linear batch stopped at its first
C25_Witness ==
    /\ pc = "error"
    /\ error = "UnboundLocalError"
    /\ mi = 2
    /\ mod_int2modem(mod[1]) = "linear"
    /\ center_frequencies = <<>>
    /\ n_captures = 2
    /\ i = 0
    /\ Len(written) = 2
    /\ Len(channel_params) = 2

----------------------------------------------------------------------------
(* C26 *)

\* C26: inside the capture loop of generate_fm the variant flag is 0 or 1
\* and the sampled modulation factors come from the narrowband list for 0
\* and from the wideband list for 1, as do the factors recorded with the FM
\* captures written; at an FM entry with any other flag the batch ends in the
\* error of the sampling step, which reads the list that was never bound,
\* with no capture of the batch written and none under way.
C26_FmVariantSelectsList ==
    /\ pc = "fm_loop" =>
          /\ mod[2] \in {0, 1}
          /\ \A k \in 1..Len(sig_params) :
                /\ mod[2] = 0 =>
                      \E x \in 1..Len(fmnb_defaults.modulation_factor) :
                         sig_params[k] = fmnb_defaults.modulation_factor[x]
                /\ mod[2] = 1 =>
                      \E x \in 1..Len(fmwb_defaults.modulation_factor) :
                         sig_params[k] = fmwb_defaults.modulation_factor[x]
    /\ \A c \in 1..Len(written) :
          FamilyOf(c) = "frequency" =>
             /\ Metadata(c).modvariant \in {0, 1}
             /\ Metadata(c).modvariant = 0 =>
                   \E x \in 1..Len(fmnb_defaults.modulation_factor) :
                      Metadata(c).mod_factor
                         = CFloat(fmnb_defaults.modulation_factor[x])
             /\ Metadata(c).modvariant = 1 =>
                   \E x \in 1..Len(fmwb_defaults.modulation_factor) :
                      Metadata(c).mod_factor
                         = CFloat(fmwb_defaults.modulation_factor[x])
    /\ (/\ mi <= Len(config.modulation)
        /\ mod_int2modem(mod[1]) = "frequency"
        /\ mod[2] \notin {0, 1})
       => /\ pc \in {"run_tx", "generate_fm", "error"}
          /\ pc = "error" => error = "UnboundLocalError"
          /\ Len(written) = idx

\* the second entry is an FM entry with variant flag 2: the first batch wrote
\* its two captures, and the FM batch ended in its sampling step
C26_Witness ==
    /\ pc = "error"
    /\ error = "UnboundLocalError"
    /\ mi = 2
    /\ mod_int2modem(mod[1]) = "frequency"
    /\ mod[2] = 2
    /\ n_captures = 2
    /\ Len(written) = 2
    /\ idx = 2

============================================================================
